---- MODULE Spec2Model ----
(***************************************************************************)
(* Model of the terminal inventory manager (main.go): the package-level    *)
(* inventory slice, the backing file inventory.json, the TextView that     *)
(* shows the inventory, and the form's button handlers.                    *)
(*                                                                         *)
(* JSON documents are sequences of tokens (whitespace and indentation are  *)
(* insignificant to the decoder and are left out).  Texts typed into the   *)
(* numeric input fields are sequences of one-character strings so that     *)
(* strconv.Atoi is computed character by character.                        *)
(***************************************************************************)
EXTENDS Integers, Sequences, FiniteSets, TLC

\* ---------------------------------------------------------------- bounds
MaxItems == 3          \* the Add button is pressed only while len(inventory) < MaxItems
MaxMsgs == 1           \* message lines appended to the TextView between two refreshes
MaxWriteFailures == 1  \* failing os.WriteFile calls in one run

\* ---------------------------------------------------------------- Item
Item(name, stock) == [name |-> name, stock |-> stock]
ZeroItem == Item("", 0)

\* a Go slice of Item: nil and empty-but-allocated are different values
NilSlice == [isNil |-> TRUE, elems |-> <<>>]
EmptySlice == [isNil |-> FALSE, elems |-> <<>>]
len(s) == Len(s.elems)
append_front(s, it) == [isNil |-> FALSE, elems |-> <<it>> \o s.elems]
append(s, it) == [isNil |-> FALSE, elems |-> Append(s.elems, it)]

\* ---------------------------------------------------------------- strconv.Atoi
DigitVal(c) ==
  CASE c = "0" -> 0 [] c = "1" -> 1 [] c = "2" -> 2 [] c = "3" -> 3 [] c = "4" -> 4
    [] c = "5" -> 5 [] c = "6" -> 6 [] c = "7" -> 7 [] c = "8" -> 8 [] c = "9" -> 9
    [] OTHER -> -1

RECURSIVE DigitsValue(_, _)
\* value of a digit string, accumulated left to right; -1 when a character is not a digit
DigitsValue(s, acc) ==
  IF s = <<>> THEN acc
  ELSE IF DigitVal(Head(s)) < 0 THEN -1
  ELSE DigitsValue(Tail(s), acc * 10 + DigitVal(Head(s)))

\* strconv.Atoi: optional sign, then one or more decimal digits.
\* (texts are at most a few characters, far below the int range limit)
Atoi(s) ==
  LET signed == s /= <<>> /\ Head(s) \in {"+", "-"}
      body == IF signed THEN Tail(s) ELSE s
      v == DigitsValue(body, 0)
  IN IF body = <<>> \/ v < 0 THEN [err |-> TRUE, val |-> 0]
     ELSE [err |-> FALSE, val |-> IF signed /\ Head(s) = "-" THEN 0 - v ELSE v]

\* ---------------------------------------------------------------- JSON tokens
Punct(p) == [t |-> "punct", s |-> p, n |-> 0]
Str(x) == [t |-> "str", s |-> x, n |-> 0]
Num(k) == [t |-> "num", s |-> "", n |-> k]
Null == [t |-> "null", s |-> "", n |-> 0]
LBrack == Punct("[")
RBrack == Punct("]")
LBrace == Punct("{")
RBrace == Punct("}")
Comma == Punct(",")
Colon == Punct(":")
IsScalar(tok) == tok.t \in {"str", "num", "null"}

\* ---------------------------------------------------------------- json.MarshalIndent
MarshalItem(it) ==
  <<LBrace, Str("name"), Colon, Str(it.name), Comma, Str("stock"), Colon, Num(it.stock), RBrace>>

RECURSIVE MarshalElems(_)
MarshalElems(e) ==
  IF e = <<>> THEN <<>>
  ELSE IF Len(e) = 1 THEN MarshalItem(e[1])
  ELSE MarshalItem(e[1]) \o <<Comma>> \o MarshalElems(Tail(e))

\* a nil slice encodes as null, any other slice as an array
Marshal(s) == IF s.isNil THEN <<Null>> ELSE <<LBrack>> \o MarshalElems(s.elems) \o <<RBrack>>

\* ---------------------------------------------------------------- json.Unmarshal
SyntaxFail == [ok |-> FALSE, next |-> 0, item |-> ZeroItem, terr |-> FALSE]

\* store one decoded member into the struct; a value of the wrong JSON type
\* leaves the field alone and records a type error, null is a no-op,
\* unknown keys are skipped
StoreField(it, key, val) ==
  IF val.t = "null" THEN [item |-> it, terr |-> FALSE]
  ELSE IF key = "name" THEN
         IF val.t = "str" THEN [item |-> [it EXCEPT !.name = val.s], terr |-> FALSE]
         ELSE [item |-> it, terr |-> TRUE]
  ELSE IF key = "stock" THEN
         IF val.t = "num" THEN [item |-> [it EXCEPT !.stock = val.n], terr |-> FALSE]
         ELSE [item |-> it, terr |-> TRUE]
  ELSE [item |-> it, terr |-> FALSE]

RECURSIVE ParseMembers(_, _, _, _)
\* toks[i] is expected to start  "key" : scalar  followed by , or }
ParseMembers(toks, i, it, terr) ==
  IF i + 3 > Len(toks) THEN SyntaxFail
  ELSE IF toks[i].t /= "str" \/ toks[i + 1] /= Colon \/ ~IsScalar(toks[i + 2]) THEN SyntaxFail
  ELSE LET st == StoreField(it, toks[i].s, toks[i + 2])
       IN IF toks[i + 3] = RBrace
            THEN [ok |-> TRUE, next |-> i + 4, item |-> st.item, terr |-> terr \/ st.terr]
          ELSE IF toks[i + 3] = Comma
            THEN ParseMembers(toks, i + 4, st.item, terr \/ st.terr)
          ELSE SyntaxFail

\* toks[i] = LBrace: an object whose member values are scalars
ParseObject(toks, i) ==
  IF i + 1 > Len(toks) THEN SyntaxFail
  ELSE IF toks[i + 1] = RBrace THEN [ok |-> TRUE, next |-> i + 2, item |-> ZeroItem, terr |-> FALSE]
  ELSE ParseMembers(toks, i + 1, ZeroItem, FALSE)

\* one array element decoded into an Item: an object fills the struct, null
\* leaves the zero Item, any other scalar is a type error and leaves the zero Item
ParseElement(toks, i) ==
  IF i > Len(toks) THEN SyntaxFail
  ELSE IF toks[i] = LBrace THEN ParseObject(toks, i)
  ELSE IF toks[i].t = "null" THEN [ok |-> TRUE, next |-> i + 1, item |-> ZeroItem, terr |-> FALSE]
  ELSE IF IsScalar(toks[i]) THEN [ok |-> TRUE, next |-> i + 1, item |-> ZeroItem, terr |-> TRUE]
  ELSE SyntaxFail

RECURSIVE ParseElements(_, _, _, _)
ParseElements(toks, i, acc, terr) ==
  LET el == ParseElement(toks, i)
  IN IF ~el.ok \/ el.next > Len(toks) THEN [ok |-> FALSE, elems |-> <<>>, terr |-> FALSE]
     ELSE IF toks[el.next] = RBrack
       THEN [ok |-> el.next = Len(toks), elems |-> Append(acc, el.item), terr |-> terr \/ el.terr]
     ELSE IF toks[el.next] = Comma
       THEN ParseElements(toks, el.next + 1, Append(acc, el.item), terr \/ el.terr)
     ELSE [ok |-> FALSE, elems |-> <<>>, terr |-> FALSE]

\* json.Unmarshal(data, &inventory) for documents whose object members are
\* scalars.  The document is validated as a whole first: on a syntax error
\* nothing is stored.  null stores the nil slice; an array stores its
\* elements (also those that produced a type error); any other top-level
\* value is a type error and stores nothing.
Unmarshal(toks, cur) ==
  IF toks = <<>> THEN [err |-> "syntax", slice |-> cur]
  ELSE IF toks = <<Null>> THEN [err |-> "none", slice |-> NilSlice]
  ELSE IF Len(toks) = 1 /\ IsScalar(toks[1]) THEN [err |-> "type", slice |-> cur]
  ELSE IF toks[1] = LBrace THEN
         LET ob == ParseObject(toks, 1)
         IN IF ob.ok /\ ob.next = Len(toks) + 1 THEN [err |-> "type", slice |-> cur]
            ELSE [err |-> "syntax", slice |-> cur]
  ELSE IF toks[1] = LBrack THEN
         IF toks = <<LBrack, RBrack>> THEN [err |-> "none", slice |-> EmptySlice]
         ELSE LET ar == ParseElements(toks, 2, <<>>, FALSE)
              IN IF ~ar.ok THEN [err |-> "syntax", slice |-> cur]
                 ELSE [err |-> IF ar.terr THEN "type" ELSE "none",
                       slice |-> [isNil |-> FALSE, elems |-> ar.elems]]
  ELSE [err |-> "syntax", slice |-> cur]

\* ---------------------------------------------------------------- the backing file
Absent == [exists |-> FALSE, data |-> <<>>]
FileOf(toks) == [exists |-> TRUE, data |-> toks]

\* contents inventory.json may have when the program starts
StartFiles ==
  { Absent,
    FileOf(<<LBrack, RBrack>>),
    FileOf(<<Null>>),
    FileOf(<<LBrack>> \o MarshalItem(Item("A", 5)) \o <<RBrack>>),
    FileOf(<<>>),
    FileOf(<<LBrack, LBrace>>),
    FileOf(<<Str("oops")>>),
    FileOf(<<LBrack, LBrace, Str("name"), Colon, Str("B"), Comma,
             Str("stock"), Colon, Str("5"), RBrace, RBrack>>) }

\* os.WriteFile(inventoryFile, data, 0644): creates or truncates, then writes.
\* "open_failed" leaves the file as it was; "write_failed" leaves the created
\* or truncated file with a strict prefix of data, represented by the empty
\* prefix (every strict prefix of an encoding is an invalid document).
WriteOutcomes == {"ok", "open_failed", "write_failed"}
WriteFile(f, data, w) ==
  IF w = "ok" THEN FileOf(data)
  ELSE IF w = "open_failed" THEN f
  ELSE FileOf(<<>>)

\* ---------------------------------------------------------------- the TextView
Row(i, it) == [kind |-> "row", pos |-> i, name |-> it.name, stock |-> it.stock, text |-> ""]
Msg(m) == [kind |-> "msg", pos |-> 0, name |-> "", stock |-> 0, text |-> m]
MsgCount(d) == Len(SelectSeq(d, LAMBDA l : l.kind = "msg" /\ l.text /= "No items in inventory."))

refreshInventory_zeroBased(inv) ==
  IF len(inv) = 0 THEN <<Msg("No items in inventory.")>>
  ELSE [i \in 1..len(inv) |-> Row(i - 1, inv.elems[i])]

\* refreshInventory: Clear(), then either the placeholder line or one line
\* "[i+1] name (Stock: stock)" per item in slice order
refreshInventory(inv) ==
  IF len(inv) = 0 THEN <<Msg("No items in inventory.")>>
  ELSE [i \in 1..len(inv) |-> Row(i, inv.elems[i])]

\* ---------------------------------------------------------------- deleteItem
deleteItem_removesNext(inv, index) ==
  IF index < 0 \/ index >= len(inv) THEN [inventory |-> inv, saved |-> FALSE]
  ELSE [inventory |-> [isNil |-> inv.isNil,
                       elems |-> SubSeq(inv.elems, 1, index + 1)
                                   \o SubSeq(inv.elems, index + 3, len(inv))],
        saved |-> TRUE]

deleteItem_nilWhenEmpty(inv, index) ==
  IF index < 0 \/ index >= len(inv) THEN [inventory |-> inv, saved |-> FALSE]
  ELSE [inventory |-> [isNil |-> len(inv) = 1,
                       elems |-> SubSeq(inv.elems, 1, index)
                                   \o SubSeq(inv.elems, index + 2, len(inv))],
        saved |-> TRUE]

\* index is zero-based; saved tells whether saveInventory was reached
deleteItem(inv, index) ==
  IF index < 0 \/ index >= len(inv) THEN [inventory |-> inv, saved |-> FALSE]
  ELSE [inventory |-> [isNil |-> inv.isNil,
                       elems |-> SubSeq(inv.elems, 1, index)
                                   \o SubSeq(inv.elems, index + 2, len(inv))],
        saved |-> TRUE]

\* ---------------------------------------------------------------- button handlers
AddItemHandler_savesOnReject(name, stock, inv) ==
  IF name /= "" /\ stock /= <<>> THEN
    LET q == Atoi(stock)
    IN IF q.err
         THEN [result |-> "invalid_stock", inventory |-> inv, save |-> TRUE,
               refresh |-> FALSE, msgs |-> <<Msg("Invalid stock value.")>>]
         ELSE [result |-> "added", inventory |-> append(inv, Item(name, q.val)), save |-> TRUE,
               refresh |-> TRUE, msgs |-> <<>>]
  ELSE [result |-> "ignored", inventory |-> inv, save |-> FALSE, refresh |-> FALSE, msgs |-> <<>>]

\* what the "Add Item" callback does with the two field texts
AddItemHandler(name, stock, inv) ==
  IF name /= "" /\ stock /= <<>> THEN
    LET q == Atoi(stock)
    IN IF q.err
         THEN [result |-> "invalid_stock", inventory |-> inv, save |-> FALSE,
               refresh |-> FALSE, msgs |-> <<Msg("Invalid stock value.")>>]
         ELSE [result |-> "added", inventory |-> append(inv, Item(name, q.val)), save |-> TRUE,
               refresh |-> TRUE, msgs |-> <<>>]
  ELSE [result |-> "ignored", inventory |-> inv, save |-> FALSE, refresh |-> FALSE, msgs |-> <<>>]

ValidID_allowsZero(id, inv) == ~(id < 0 \/ id > len(inv))

\* the range test of the "Delete Item" callback
ValidID(id, inv) == ~(id < 1 \/ id > len(inv))

\* what the "Delete Item" callback does with the ID field text
DeleteItemHandler(idStr, inv) ==
  IF idStr = <<>>
    THEN [result |-> "empty_id", inventory |-> inv, save |-> FALSE, refresh |-> FALSE,
          msgs |-> <<Msg("Please enter an item ID to delete.")>>]
  ELSE LET a == Atoi(idStr)
       IN IF a.err \/ ~ValidID(a.val, inv)
            THEN [result |-> "invalid_id", inventory |-> inv, save |-> FALSE, refresh |-> FALSE,
                  msgs |-> <<Msg("Invalid item ID.")>>]
            ELSE LET d == deleteItem(inv, a.val - 1)
                 IN [result |-> "deleted", inventory |-> d.inventory, save |-> d.saved,
                     refresh |-> TRUE, msgs |-> <<Msg("Item deleted.")>>]

\* texts the user types into the form fields
Names == {"", "A"}
StockTexts == {<<>>, <<"5">>, <<"-", "3">>, <<"+", "5">>, <<"x">>, <<"-">>}
IDTexts == {<<>>, <<"0">>, <<"1">>, <<"2">>, <<"3">>, <<"4">>, <<"-", "1">>, <<"x">>}

\* ---------------------------------------------------------------- state
VARIABLES
  pc,             \* "start", "loaded", "waiting", "stopped", "fatal"
  inventory,      \* the package-level slice
  file,           \* inventory.json
  display,        \* lines of the inventoryList TextView
  event,          \* the last step: operation, field texts read, outcome
  writeFailures   \* failed os.WriteFile calls so far

vars == <<pc, inventory, file, display, event, writeFailures>>

Event(op, name, text, result, saveCalled, data, writeErr) ==
  [op |-> op, name |-> name, text |-> text, result |-> result,
   saveCalled |-> saveCalled, data |-> data, writeErr |-> writeErr]
NoSave(op, name, text, result) == Event(op, name, text, result, FALSE, <<>>, FALSE)

Init ==
  /\ pc = "start"
  /\ inventory = EmptySlice
  /\ file \in StartFiles
  /\ display = <<>>
  /\ event = NoSave("none", "", <<>>, "none")
  /\ writeFailures = 0

\* loadInventory: skipped when os.Stat fails (no file, or the file cannot be
\* examined); a failing os.ReadFile is fatal; the error of json.Unmarshal is
\* dropped.  The step's event records what the load met: "absent",
\* "stat_error", "read_error", or the outcome of the decoding ("array",
\* "null", "syntax", "type").
loadInventory ==
  /\ pc = "start"
  /\ \E io \in {"ok", "stat_error", "read_error"} :
       /\ ~file.exists => io = "stat_error"
       /\ IF io = "stat_error"
            THEN /\ inventory' = inventory
                 /\ event' = NoSave("load", "", <<>>, IF file.exists THEN "stat_error" ELSE "absent")
                 /\ pc' = "loaded"
          ELSE IF io = "read_error"
            THEN /\ inventory' = inventory
                 /\ event' = NoSave("load", "", <<>>, "read_error")
                 /\ pc' = "fatal"
          ELSE LET u == Unmarshal(file.data, inventory)
               IN /\ inventory' = u.slice
                  /\ event' = NoSave("load", "", <<>>,
                                     IF u.err = "none"
                                       THEN (IF u.slice.isNil THEN "null" ELSE "array")
                                       ELSE u.err)
                  /\ pc' = "loaded"
  /\ UNCHANGED <<file, display, writeFailures>>

\* main, line 184: the initial refreshInventory() before app.Run()
InitialRender ==
  /\ pc = "loaded"
  /\ display' = refreshInventory(inventory)
  /\ pc' = "waiting"
  /\ event' = NoSave("render", "", <<>>, "rendered")
  /\ UNCHANGED <<inventory, file, writeFailures>>

\* saveInventory: marshal the slice and hand it to os.WriteFile, whose
\* error is dropped
saveInventory(inv, w) ==
  /\ w /= "ok" => writeFailures < MaxWriteFailures
  /\ file' = WriteFile(file, Marshal(inv), w)
  /\ writeFailures' = IF w = "ok" THEN writeFailures ELSE writeFailures + 1

\* the common tail of both callbacks.  A rejected event appends its message
\* to the TextView; a completed one ends with refreshInventory, whose Clear()
\* wipes whatever was written before it (the "Item [id] deleted." line too).
\* The SetText("") calls reset form fields whose text the user chooses anew
\* before every click; the texts are the inputs of AddItem and DeleteItem.
Finish(op, name, text, o) ==
  /\ Len(o.msgs) > 0 /\ ~o.refresh => MsgCount(display) < MaxMsgs
  /\ inventory' = o.inventory
  /\ display' = IF o.refresh THEN refreshInventory(o.inventory) ELSE display \o o.msgs
  /\ IF o.save
       THEN \E w \in WriteOutcomes :
              /\ saveInventory(o.inventory, w)
              /\ event' = Event(op, name, text, o.result, TRUE, Marshal(o.inventory), w /= "ok")
       ELSE /\ event' = NoSave(op, name, text, o.result)
            /\ UNCHANGED <<file, writeFailures>>
  /\ UNCHANGED pc

AddItem ==
  /\ pc = "waiting"
  /\ \E name \in Names, stock \in StockTexts :
       LET o == AddItemHandler(name, stock, inventory)
       IN /\ o.result = "added" => len(inventory) < MaxItems
          /\ Finish("add", name, stock, o)

DeleteItem ==
  /\ pc = "waiting"
  /\ \E idStr \in IDTexts :
       Finish("delete", "", idStr, DeleteItemHandler(idStr, inventory))

\* the "Exit" button: app.Stop()
Exit ==
  /\ pc = "waiting"
  /\ pc' = "stopped"
  /\ event' = NoSave("exit", "", <<>>, "stopped")
  /\ UNCHANGED <<inventory, file, display, writeFailures>>

Next == loadInventory \/ InitialRender \/ AddItem \/ DeleteItem \/ Exit

Spec == Init /\ [][Next]_vars

TypeOK ==
  /\ pc \in {"start", "loaded", "waiting", "stopped", "fatal"}
  /\ inventory.isNil \in BOOLEAN
  /\ file.exists \in BOOLEAN
  /\ writeFailures \in 0..MaxWriteFailures

\* ---------------------------------------------------------------- properties
\* what a fresh process would load from the file, and whether it decodes cleanly
Reload(f) ==
  IF ~f.exists THEN [err |-> "none", slice |-> EmptySlice]
  ELSE Unmarshal(f.data, EmptySlice)
FileMatchesMemory == Reload(file).err = "none" /\ Reload(file).slice.elems = inventory.elems
Rejected == {"ignored", "invalid_stock", "empty_id", "invalid_id"}
\* the integer a stock text denotes, tabulated for the texts of StockTexts
StockOf(t) ==
  CASE t = <<"5">> -> 5 [] t = <<"+", "5">> -> 5 [] t = <<"-", "3">> -> 0 - 3 [] OTHER -> 1000
IsInteger(t) == t \in {<<"5">>, <<"+", "5">>, <<"-", "3">>}
\* the position an ID text denotes, tabulated for the texts of IDTexts
PosOf(t) ==
  CASE t = <<"0">> -> 0 [] t = <<"1">> -> 1 [] t = <<"2">> -> 2 [] t = <<"3">> -> 3
    [] t = <<"4">> -> 4 [] t = <<"-", "1">> -> 0 - 1 [] OTHER -> 1000
IsPosition(t) == PosOf(t) /= 1000

\* C1: after a successful add or delete, while the process is running, the
\* file decodes to exactly the in-memory inventory (same items, same order).
C1_FileEqualsMemoryAfterMutation ==
  (pc = "waiting" /\ event.result \in {"added", "deleted"}) => FileMatchesMemory

\* C2: a failed write in save is fatal: the program never waits for a further
\* event after a failed write while memory and file differ.
C2_WriteFailureIsFatal ==
  ~(event.saveCalled /\ event.writeErr /\ pc = "waiting" /\ ~FileMatchesMemory)

\* C3: a file that exists and does not decode as an array of item records
\* halts the process in load: the program does not go on to the first render.
C3_MalformedFileHalts ==
  (event.op = "load" /\ event.result \in {"syntax", "type"}) => pc = "fatal"

\* C4: for 1 <= p <= N, delete(p) succeeds, the length drops by one, items
\* before p stay in place and items after p move down by one position.
C4_DeleteRemovesExactlyPosition ==
  [][(event'.op = "delete" /\ IsPosition(event'.text)
        /\ PosOf(event'.text) \in 1..len(inventory))
      => LET p == PosOf(event'.text)
         IN /\ event'.result = "deleted"
            /\ len(inventory') = len(inventory) - 1
            /\ \A i \in 1..(p - 1) : inventory'.elems[i] = inventory.elems[i]
            /\ \A i \in p..(len(inventory) - 1) : inventory'.elems[i] = inventory.elems[i + 1]]_vars
\* deleting position 2 of three has happened: the old third item is now second
C4_Witness ==
  /\ event.op = "delete" /\ event.result = "deleted" /\ event.text = <<"2">>
  /\ len(inventory) = 2
  /\ inventory.elems[1] /= inventory.elems[2]

\* C5: add with a non-empty name and an integer stock text appends exactly
\* one item, with that name and the parsed value, and keeps all earlier items.
C5_AddAppendsParsedItem ==
  [][(event'.op = "add" /\ event'.name /= "" /\ IsInteger(event'.text))
      => /\ event'.result = "added"
         /\ len(inventory') = len(inventory) + 1
         /\ inventory'.elems[len(inventory')] = Item(event'.name, StockOf(event'.text))
         /\ \A i \in 1..len(inventory) : inventory'.elems[i] = inventory.elems[i]]_vars
C5_Witness ==
  /\ event.op = "add" /\ event.result = "added" /\ event.text = <<"-", "3">>
  /\ len(inventory) = 2
  /\ inventory.elems[2] = Item("A", 0 - 3)
  /\ inventory.elems[1] /= inventory.elems[2]

\* C6: a position below 1 or above the length (also on the empty inventory)
\* is rejected and the inventory is unchanged.
C6_OutOfRangeRejected ==
  [][(event'.op = "delete" /\ IsPosition(event'.text)
        /\ (PosOf(event'.text) < 1 \/ PosOf(event'.text) > len(inventory)))
      => /\ event'.result = "invalid_id"
         /\ inventory' = inventory
         /\ display' = Append(display, Msg("Invalid item ID."))]_vars
C6_Witness ==
  /\ event.op = "delete" /\ event.result = "invalid_id" /\ event.text = <<"0">>
  /\ len(inventory) = 1

\* C7: add with an empty name or an empty stock text is reported on the
\* display, is not fatal, and leaves the inventory unchanged.
C7_EmptyFieldReported ==
  [][(event'.op = "add" /\ (event'.name = "" \/ event'.text = <<>>))
      => /\ inventory' = inventory
         /\ pc' = "waiting"
         /\ Len(display') = Len(display) + 1
         /\ display'[Len(display')].kind = "msg"]_vars

\* C8: a rejected add or delete does not call save: the file keeps its
\* content, and a file that did not exist is not created.
C8_RejectedMakesNoSave ==
  [][event'.result \in Rejected => (~event'.saveCalled /\ file' = file)]_vars
C8_Witness ==
  /\ event.op = "add" /\ event.result = "invalid_stock"
  /\ ~file.exists
  /\ len(inventory) = 0

\* C9: what save hands to the file is always an array, never null; after
\* deleting the last item it is the empty array, also when the inventory
\* came from a file holding null or [].
C9_SaveWritesArray ==
  event.saveCalled =>
    /\ event.data /= <<Null>>
    /\ Len(event.data) >= 2
    /\ event.data[1] = LBrack
    /\ event.data[Len(event.data)] = RBrack
    /\ (len(inventory) = 0 => event.data = <<LBrack, RBrack>>)
C9_Witness ==
  /\ event.op = "delete" /\ event.result = "deleted" /\ event.saveCalled
  /\ len(inventory) = 0
  /\ event.data = <<LBrack, RBrack>>

\* C10: while waiting for an event, the item rows on the display are the
\* inventory in order, row i carrying position i.
C10_DisplayShowsInventory ==
  pc = "waiting" =>
    LET rows == SelectSeq(display, LAMBDA l : l.kind = "row")
    IN /\ Len(rows) = len(inventory)
       /\ \A i \in 1..Len(rows) :
            /\ rows[i].pos = i
            /\ rows[i].name = inventory.elems[i].name
            /\ rows[i].stock = inventory.elems[i].stock
C10_Witness ==
  /\ pc = "waiting"
  /\ event.result = "invalid_id"
  /\ len(inventory) = 2
  /\ Len(display) = 3
====
